---- MODULE Spec2Model ----
(***************************************************************************)
(* State-machine model of crimes_grabber.py: main() and the functions it   *)
(* calls (get_state_crimes, get_agency_code, get_agency_crimes,            *)
(* plot_scatter, DatabaseConnection), the relational store it writes and   *)
(* the ThreadPoolExecutor fan-out of the per-agency fetches.               *)
(*                                                                         *)
(* Spec      : successive runs of main() against one store, with every     *)
(*             interleaving of the pool's workers.                         *)
(* SpecPool  : the executor alone (lines 166-168) with more submitted      *)
(*             calls than max_workers, by counting threads.                *)
(***************************************************************************)
EXTENDS Integers, Sequences, FiniteSets, TLC

\* ---------------------------------------------------------------- bounds
\* Largest number of agencies the directory endpoint returns.
MaxAgencies == 2
\* Largest number of records in the "data" list of one 200 response.
MaxRecs == 1
\* SpecPool submits up to max_workers + PoolExtra calls.
PoolExtra == 2

\* ------------------------------------------------------ program constants
\* ThreadPoolExecutor(max_workers = 40)
max_workers == 40

\* columns_to_plot = ['Rape', 'Aggravated Assault'] and the x field
columns_to_plot == <<"Rape", "Aggravated Assault">>
x_field == "data_year"

\* Field sets a state-level record can carry: the full set, and one lacking
\* a plotted series.
AllFields == {"data_year", "Rape", "Aggravated Assault"}
FieldSets == {AllFields, AllFields \ {"Rape"}}

\* Agency identifiers ("ori" codes) are 1, 2, ...: i stands for the i-th
\* code of the directory, e.g. CO00i.
\* The value of a crime record's Agency key when the key is absent.
NoAgency == 0

\* Exceptions that can be in flight in main().
NoExc == "none"

\* ----------------------------------------------------------- Python values
\* A value that is either None or a list.
PyNone == [isNone |-> TRUE, rows |-> <<>>]
PyList(rows) == [isNone |-> FALSE, rows |-> rows]

\* pd.DataFrame(x): None and [] both give the empty frame.
DataFrame(x) == IF x.isNone THEN <<>> ELSE x.rows

\* Columns of a frame: the union of the keys of its records.
Columns(df) == UNION {df[i].fields : i \in DOMAIN df}

Range(s) == {s[i] : i \in DOMAIN s}
IsPrefix(s, t) == Len(s) <= Len(t) /\ \A i \in DOMAIN s : s[i] = t[i]

RECURSIVE Sum(_, _)
Sum(f, S) ==
    IF S = {} THEN 0
    ELSE LET i == CHOOSE j \in S : TRUE
         IN f[i] + Sum(f, S \ {i})

\* ------------------------------------------------------------ HTTP inputs
\* A response: raises = requests.get / json.loads / the ['data'] lookup
\* raised; otherwise a status code and the decoded data list.
StateRows(n, fs) == [k \in 1..n |-> [gen |-> "cur", k |-> k, fields |-> fs]]
StateResponses ==
    {[raises |-> TRUE, status_code |-> 0, data |-> <<>>],
     [raises |-> FALSE, status_code |-> 404, data |-> <<>>]}
    \cup {[raises |-> FALSE, status_code |-> 200, data |-> StateRows(n, fs)] :
             n \in 0..MaxRecs, fs \in FieldSets}

DirRows(n) == [k \in 1..n |-> [gen |-> "cur", ori |-> k]]
DirResponses ==
    {[raises |-> TRUE, data |-> <<>>]}
    \cup {[raises |-> FALSE, data |-> DirRows(n)] : n \in 0..MaxAgencies}

\* Records the per-agency endpoint returns for the agency named in the URL
\* (field of is that agency); the endpoint does not embed an Agency key.
CrimeRows(code, n) ==
    [k \in 1..n |-> [gen |-> "cur", of |-> code, k |-> k, Agency |-> NoAgency]]
AgencyResponses(code) ==
    {[raises |-> TRUE, status_code |-> 0, data |-> <<>>],
     [raises |-> FALSE, status_code |-> 404, data |-> <<>>]}
    \cup {[raises |-> FALSE, status_code |-> 200, data |-> CrimeRows(code, n)] :
             n \in 0..MaxRecs}

\* --------------------------------------------------------------- functions
\* get_state_crimes: the data list on 200, None otherwise.
get_state_crimes(response) ==
    IF response.status_code = 200 THEN PyList(response.data) ELSE PyNone

\* get_agency_code: agency_list = [agency_dict['ori'] for agency_dict in json_data]
agency_list(json_data) == [i \in DOMAIN json_data |-> json_data[i].ori]

\* for crime_dict in crime_data: crime_dict['Agency'] = agency_code
TagRecords_untagged(crime_data, agency_code) == crime_data
TagRecords(crime_data, agency_code) ==
    [i \in DOMAIN crime_data |-> [crime_data[i] EXCEPT !.Agency = agency_code]]

\* get_agency_crimes: the tagged data list on 200, None otherwise.
get_agency_crimes(agency_code, response) ==
    IF response.status_code = 200
    THEN PyList(TagRecords(response.data, agency_code))
    ELSE PyNone

\* agency_crimes = [crime for future in as_completed(futures)
\*                        for crime in future.result()]: one future's step.
Flattened_last_only(acc, result) == result.rows
Flattened(acc, result) == acc \o result.rows

\* df.to_sql(name, engine, if_exists='replace', index=False)
to_sql_append(store, name, frame) == [store EXCEPT ![name] = @ \o frame]
to_sql_skip_empty(store, name, frame) ==
    IF frame = <<>> THEN store ELSE [store EXCEPT ![name] = frame]
to_sql(store, name, frame) == [store EXCEPT ![name] = frame]

\* plot_scatter: df[x_values] and df[col] raise KeyError for an absent
\* column, drawing may fail (drawOk); every Exception is caught and logged.
PlotFails(df, x_values, cols, drawOk) ==
    \/ ~drawOk
    \/ /\ Len(cols) > 0
       /\ \/ x_values \notin Columns(df)
          \/ \E i \in DOMAIN cols : cols[i] \notin Columns(df)
plot_scatter_propagates(df, x_values, cols, drawOk) ==
    IF PlotFails(df, x_values, cols, drawOk)
    THEN [log |-> "plot_error", shown |-> FALSE, raised |-> "PlotError"]
    ELSE [log |-> "plotted", shown |-> TRUE, raised |-> NoExc]
plot_scatter(df, x_values, cols, drawOk) ==
    IF PlotFails(df, x_values, cols, drawOk)
    THEN [log |-> "plot_error", shown |-> FALSE, raised |-> NoExc]
    ELSE [log |-> "plotted", shown |-> TRUE, raised |-> NoExc]

\* DatabaseConnection.__exit__: self.engine.dispose()
DatabaseConnection_exit_leak(eng) == eng
DatabaseConnection_exit(eng) == "disposed"

\* Control flow out of a statement of the with-body: an exception leaves the
\* body (to __exit__), otherwise the next statement runs.
AfterStatement_swallow(e, next) == next
AfterStatement(e, next) == IF e = NoExc THEN next ELSE "exit"

\* ThreadPoolExecutor: a submitted call starts only on one of at most
\* max_workers threads.
CanStart_unbounded(inflight) == TRUE
CanStart(inflight) == inflight < max_workers

\* Leaving "with ThreadPoolExecutor(...)": shutdown(wait=True) returns when
\* every submitted call has finished.
ShutdownReturns_nowait(fs) == TRUE
ShutdownReturns(fs) == \A i \in DOMAIN fs : fs[i].state = "finished"

\* ------------------------------------------------------------------ state
VARIABLES
    pc,            \* position of the main thread in main()
    exc,           \* exception propagating in main(), or NoExc
    engine,        \* "none" | "live" | "disposed"
    log,           \* log lines written by this invocation of main()
    db,            \* the store: table name -> rows
    state_df,      \* state_crimes_df
    agency_data,   \* json_data of the directory
    agency_codes,  \* agency_codes
    futures,       \* futures, in submission order
    consumed,      \* futures whose result the comprehension has taken
    agency_crimes, \* agency_crimes (the flattened list)
    chart,         \* TRUE once plt.show() has run
    stages,        \* stages completed by this invocation, in order
    prev,          \* outcome of the previous invocation
    returned,      \* number of records the state and directory endpoints sent
    pool_n, pool_submitted, pool_started, pool_busy, pool_done, pool_exec

mainVars == <<pc, exc, engine, log, db, state_df, agency_data, agency_codes,
              futures, consumed, agency_crimes, chart, stages, prev, returned>>
poolVars == <<pool_n, pool_submitted, pool_started, pool_busy, pool_done, pool_exec>>
vars == <<mainVars, poolVars>>

Tables == {"state_crimes", "agency_info", "agency_crimes"}
StageOrder == <<"state_crimes", "agency_info", "agency_crimes", "render">>

InFlight == Cardinality({i \in DOMAIN futures : futures[i].state = "running"})

InitMain ==
    /\ pc = "start"
    /\ exc = NoExc
    /\ engine = "none"
    /\ log = <<>>
    /\ db = [t \in Tables |-> <<>>]
    /\ state_df = <<>>
    /\ agency_data = <<>>
    /\ agency_codes = <<>>
    /\ futures = <<>>
    /\ consumed = {}
    /\ agency_crimes = <<>>
    /\ chart = FALSE
    /\ stages = <<>>
    /\ prev = "none"
    /\ returned = [state |-> 0, directory |-> 0]

InitPoolIdle ==
    /\ pool_n = 0
    /\ pool_submitted = 0
    /\ pool_started = 0
    /\ pool_busy = 0
    /\ pool_done = 0
    /\ pool_exec = <<>>

Init == InitMain /\ InitPoolIdle

\* ------------------------------------------------------------ main thread
\* setup_logging()
SetupLogging ==
    /\ UNCHANGED poolVars
    /\ pc = "start"
    /\ log' = Append(log, "log_created")
    /\ pc' = "enter"
    /\ UNCHANGED <<exc, engine, db, state_df, agency_data, agency_codes,
                   futures, consumed, agency_crimes, chart, stages, prev, returned>>

\* DatabaseConnection.__enter__ -> connect_db(): logs and returns the
\* engine, or logs the error and re-raises (then __exit__ does not run).
Enter ==
    /\ UNCHANGED poolVars
    /\ pc = "enter"
    /\ \E ok \in BOOLEAN :
          IF ok
          THEN /\ engine' = "live"
               /\ log' = Append(log, "connected")
               /\ exc' = exc
               /\ pc' = "state"
          ELSE /\ engine' = engine
               /\ log' = Append(log, "connect_error")
               /\ exc' = "ConnectError"
               /\ pc' = "except"
    /\ UNCHANGED <<db, state_df, agency_data, agency_codes, futures, consumed,
                   agency_crimes, chart, stages, prev, returned>>

\* Lines 154-157: fetch the state data, build the frame, write the table.
StateStage ==
    /\ UNCHANGED poolVars
    /\ pc = "state"
    /\ \E response \in StateResponses, storeOk \in BOOLEAN :
          LET df == DataFrame(get_state_crimes(response))
              e  == IF response.raises THEN "RequestError"
                    ELSE IF ~storeOk THEN "StoreError" ELSE NoExc
          IN /\ exc' = IF e = NoExc THEN exc ELSE e
             /\ pc' = AfterStatement(e, "directory")
             /\ IF e = NoExc
                THEN /\ state_df' = df
                     /\ db' = to_sql(db, "state_crimes", df)
                     /\ log' = Append(log, "got_state")
                     /\ stages' = Append(stages, "state_crimes")
                ELSE /\ state_df' = IF response.raises THEN state_df ELSE df
                     /\ UNCHANGED <<db, log, stages>>
             /\ returned' = IF response.raises THEN returned
                             ELSE [returned EXCEPT !.state = Len(response.data)]
    /\ UNCHANGED <<engine, agency_data, agency_codes, futures, consumed,
                   agency_crimes, chart, prev>>

\* Lines 160-163: fetch the directory, write agency_info.
DirectoryStage ==
    /\ UNCHANGED poolVars
    /\ pc = "directory"
    /\ \E response \in DirResponses, storeOk \in BOOLEAN :
          LET e == IF response.raises THEN "RequestError"
                   ELSE IF ~storeOk THEN "StoreError" ELSE NoExc
          IN /\ exc' = IF e = NoExc THEN exc ELSE e
             /\ pc' = AfterStatement(e, "submit")
             /\ IF response.raises
                THEN UNCHANGED <<agency_data, agency_codes, returned>>
                ELSE /\ agency_data' = response.data
                     /\ agency_codes' = agency_list(response.data)
                     /\ returned' = [returned EXCEPT !.directory = Len(response.data)]
             /\ IF e = NoExc
                THEN /\ db' = to_sql(db, "agency_info", DataFrame(PyList(response.data)))
                     /\ log' = Append(log, "got_agency_info")
                     /\ stages' = Append(stages, "agency_info")
                ELSE UNCHANGED <<db, log, stages>>
    /\ UNCHANGED <<engine, state_df, futures, consumed, agency_crimes, chart, prev>>

\* Line 167: executor.submit(get_agency_crimes, agency_code), one per code.
Submit ==
    /\ UNCHANGED poolVars
    /\ pc = "submit"
    /\ Len(futures) < Len(agency_codes)
    /\ futures' = Append(futures,
                         [agency_code |-> agency_codes[Len(futures) + 1],
                          state |-> "pending",
                          status_code |-> 0,
                          returned |-> 0,
                          raised |-> FALSE,
                          result |-> PyNone])
    /\ UNCHANGED <<pc, exc, engine, log, db, state_df, agency_data, agency_codes,
                   consumed, agency_crimes, chart, stages, prev, returned>>

\* End of the "with ThreadPoolExecutor" block.
ExecutorExit ==
    /\ UNCHANGED poolVars
    /\ pc = "submit"
    /\ Len(futures) = Len(agency_codes)
    /\ ShutdownReturns(futures)
    /\ pc' = "flatten"
    /\ UNCHANGED <<exc, engine, log, db, state_df, agency_data, agency_codes,
                   futures, consumed, agency_crimes, chart, stages, prev, returned>>

\* Lines 171-172: as_completed yields a finished future not yet taken;
\* future.result() re-raises the call's exception; iterating None raises
\* TypeError; otherwise the records are appended.
Flatten ==
    /\ UNCHANGED poolVars
    /\ pc = "flatten"
    /\ \E i \in DOMAIN futures :
          /\ i \notin consumed
          /\ futures[i].state = "finished"
          /\ LET e == IF futures[i].raised THEN "RequestError"
                      ELSE IF futures[i].result.isNone THEN "TypeError"
                      ELSE NoExc
             IN /\ exc' = IF e = NoExc THEN exc ELSE e
                /\ pc' = AfterStatement(e, "flatten")
                /\ consumed' = consumed \cup {i}
                /\ agency_crimes' = IF e = NoExc
                                    THEN Flattened(agency_crimes, futures[i].result)
                                    ELSE agency_crimes
    /\ UNCHANGED <<engine, log, db, state_df, agency_data, agency_codes,
                   futures, chart, stages, prev, returned>>

\* Lines 173-175: write agency_crimes.
AgencyPersist ==
    /\ UNCHANGED poolVars
    /\ pc = "flatten"
    /\ consumed = DOMAIN futures
    /\ \E storeOk \in BOOLEAN :
          LET e == IF storeOk THEN NoExc ELSE "StoreError"
          IN /\ exc' = IF e = NoExc THEN exc ELSE e
             /\ pc' = AfterStatement(e, "render")
             /\ IF e = NoExc
                THEN /\ db' = to_sql(db, "agency_crimes", DataFrame(PyList(agency_crimes)))
                     /\ log' = Append(log, "got_agency_crimes")
                     /\ stages' = Append(stages, "agency_crimes")
                ELSE UNCHANGED <<db, log, stages>>
    /\ UNCHANGED <<engine, state_df, agency_data, agency_codes, futures,
                   consumed, agency_crimes, chart, prev, returned>>

\* Lines 178-179: plot_scatter(state_crimes_df, 'data_year', columns_to_plot)
Render ==
    /\ UNCHANGED poolVars
    /\ pc = "render"
    /\ \E drawOk \in BOOLEAN :
          LET r == plot_scatter(state_df, x_field, columns_to_plot, drawOk)
          IN /\ log' = Append(log, r.log)
             /\ chart' = r.shown
             /\ exc' = IF r.raised = NoExc THEN exc ELSE r.raised
             /\ pc' = AfterStatement(r.raised, "exit")
             /\ stages' = IF r.raised = NoExc THEN Append(stages, "render") ELSE stages
    /\ UNCHANGED <<engine, db, state_df, agency_data, agency_codes, futures,
                   consumed, agency_crimes, prev, returned>>

\* DatabaseConnection.__exit__ (returns None: an exception keeps propagating).
Exit ==
    /\ UNCHANGED poolVars
    /\ pc = "exit"
    /\ engine' = DatabaseConnection_exit(engine)
    /\ pc' = IF exc = NoExc THEN "finally" ELSE "except"
    /\ UNCHANGED <<exc, log, db, state_df, agency_data, agency_codes, futures,
                   consumed, agency_crimes, chart, stages, prev, returned>>

\* Lines 181-184: log the message, print it, re-raise.
Except ==
    /\ UNCHANGED poolVars
    /\ pc = "except"
    /\ log' = Append(log, "main_error")
    /\ pc' = "finally"
    /\ UNCHANGED <<exc, engine, db, state_df, agency_data, agency_codes,
                   futures, consumed, agency_crimes, chart, stages, prev, returned>>

\* Lines 186-187.
Finally ==
    /\ UNCHANGED poolVars
    /\ pc = "finally"
    /\ log' = Append(log, "finished")
    /\ pc' = IF exc = NoExc THEN "done" ELSE "raised"
    /\ UNCHANGED <<exc, engine, db, state_df, agency_data, agency_codes,
                   futures, consumed, agency_crimes, chart, stages, prev, returned>>

\* ---------------------------------------------------------- pool workers
\* A worker thread takes a submitted call and begins get_agency_crimes.
WorkerStart(i) ==
    /\ UNCHANGED poolVars
    /\ futures[i].state = "pending"
    /\ CanStart(InFlight)
    /\ futures' = [futures EXCEPT ![i].state = "running"]
    /\ UNCHANGED <<pc, exc, engine, log, db, state_df, agency_data, agency_codes,
                   consumed, agency_crimes, chart, stages, prev, returned>>

\* The HTTP response arrives; get_agency_crimes returns or raises and the
\* future is set.
WorkerReturn(i) ==
    /\ UNCHANGED poolVars
    /\ futures[i].state = "running"
    /\ \E response \in AgencyResponses(futures[i].agency_code) :
          futures' = [futures EXCEPT
                        ![i].state = "finished",
                        ![i].raised = response.raises,
                        ![i].status_code = response.status_code,
                        ![i].returned = Len(response.data),
                        ![i].result = IF response.raises THEN PyNone
                                      ELSE get_agency_crimes(futures[i].agency_code,
                                                             response)]
    /\ UNCHANGED <<pc, exc, engine, log, db, state_df, agency_data, agency_codes,
                   consumed, agency_crimes, chart, stages, prev, returned>>

\* ------------------------------------------------------- the next process
\* The script is run again against the same store.  Rows left by earlier
\* runs are kept, marked "old".
Stale(rows) == [i \in DOMAIN rows |-> [rows[i] EXCEPT !.gen = "old"]]
NewRun ==
    /\ UNCHANGED poolVars
    /\ pc \in {"done", "raised"}
    /\ prev' = pc
    /\ db' = [t \in Tables |-> Stale(db[t])]
    /\ pc' = "start"
    /\ exc' = NoExc
    /\ engine' = "none"
    /\ log' = <<>>
    /\ state_df' = <<>>
    /\ agency_data' = <<>>
    /\ agency_codes' = <<>>
    /\ futures' = <<>>
    /\ consumed' = {}
    /\ agency_crimes' = <<>>
    /\ chart' = FALSE
    /\ stages' = <<>>
    /\ returned' = [state |-> 0, directory |-> 0]

Next ==
    \/ SetupLogging
    \/ Enter
    \/ StateStage
    \/ DirectoryStage
    \/ Submit
    \/ ExecutorExit
    \/ Flatten
    \/ AgencyPersist
    \/ Render
    \/ Exit
    \/ Except
    \/ Finally
    \/ NewRun
    \/ \E i \in DOMAIN futures : WorkerStart(i)
    \/ \E i \in DOMAIN futures : WorkerReturn(i)

Spec == Init /\ [][Next]_vars

\* ------------------------------------------------- the executor, counted
\* Lines 166-168 with more calls than threads.  The work queue is first-in
\* first-out, so the calls start in submission order: pool_started calls
\* have been taken from the queue, pool_busy of them are running on a
\* thread, pool_done have returned; pool_exec[i] counts the executions of
\* the i-th submitted call.
PoolSizes == (max_workers - 1)..(max_workers + PoolExtra)

InitPool ==
    /\ InitMain
    /\ pool_n \in PoolSizes
    /\ pool_submitted = 0
    /\ pool_started = 0
    /\ pool_busy = 0
    /\ pool_done = 0
    /\ pool_exec = [i \in 1..pool_n |-> 0]

\* executor.submit(get_agency_crimes, agency_code)
PoolSubmit ==
    /\ UNCHANGED mainVars
    /\ pool_submitted < pool_n
    /\ pool_submitted' = pool_submitted + 1
    /\ UNCHANGED <<pool_n, pool_started, pool_busy, pool_done, pool_exec>>

\* A thread takes the oldest queued call and runs it.
PoolStart ==
    /\ UNCHANGED mainVars
    /\ pool_started < pool_submitted
    /\ CanStart(pool_busy)
    /\ pool_started' = pool_started + 1
    /\ pool_busy' = pool_busy + 1
    /\ pool_exec' = [pool_exec EXCEPT ![pool_started + 1] = @ + 1]
    /\ UNCHANGED <<pool_n, pool_submitted, pool_done>>

\* A running call returns; its thread is free again.
PoolReturn ==
    /\ UNCHANGED mainVars
    /\ pool_busy > 0
    /\ pool_busy' = pool_busy - 1
    /\ pool_done' = pool_done + 1
    /\ UNCHANGED <<pool_n, pool_submitted, pool_started, pool_exec>>

NextPool ==
    \/ PoolSubmit
    \/ PoolStart
    \/ PoolReturn

SpecPool == InitPool /\ [][NextPool]_vars

\* The main thread keeps submitting, an idle thread takes queued work, and
\* an HTTP call that was started returns.
FairSpecPool ==
    /\ SpecPool
    /\ WF_vars(PoolSubmit)
    /\ WF_vars(PoolStart)
    /\ WF_vars(PoolReturn)

\* ----------------------------------------------------------------- claims
Finished(i) == futures[i].state = "finished"
Ok200(i) == Finished(i) /\ ~futures[i].raised /\ futures[i].status_code = 200
Non200(i) == Finished(i) /\ ~futures[i].raised /\ futures[i].status_code # 200
AllRows == Range(agency_crimes) \cup Range(db["agency_crimes"])
Fresh(rows) == \A i \in DOMAIN rows : rows[i].gen = "cur"

\* C1: an agency whose call returned a non-200 status contributes no rows,
\* the rows of the agencies that returned 200 are collected and written, and
\* no exception leaves the fan-out stage because of the failed agency.
C1_FailedAgencyContained ==
    /\ \A i \in consumed : Non200(i) => exc = NoExc
    /\ \A r \in AllRows : r.gen = "cur" => \E i \in DOMAIN futures :
          Ok200(i) /\ futures[i].agency_code = r.of
    /\ (\A i \in DOMAIN futures : Finished(i) /\ ~futures[i].raised)
          /\ consumed = DOMAIN futures /\ pc = "flatten"
       => Len(agency_crimes) =
             Sum([i \in DOMAIN futures |-> futures[i].returned],
                 {i \in DOMAIN futures : Ok200(i)})

\* C2: every record of the flattened list and every row of agency_crimes
\* carries the identifier of the agency whose call produced it.
C2_AgencyTagged ==
    \A r \in AllRows : r.Agency = r.of /\ r.Agency # NoAgency

C2_Witness ==
    /\ pc = "done"
    /\ Len(db["agency_crimes"]) = 2
    /\ db["agency_crimes"][1].Agency = 2
    /\ db["agency_crimes"][2].Agency = 1

\* C3: when main() has ended after the engine was acquired, by return or by
\* exception, the engine is disposed and the last log line is the
\* "Finished running" line.
C3_ReleasedAndFinished ==
    /\ engine = "live" => pc \notin {"except", "finally", "done", "raised"}
    /\ pc \in {"done", "raised"} =>
          /\ log[Len(log)] = "finished"
          /\ "connected" \in Range(log) => engine = "disposed"

C3_Witness ==
    /\ pc = "raised"
    /\ exc = "StoreError"
    /\ engine = "disposed"
    /\ stages = <<"state_crimes", "agency_info">>

C5_SecondRunOnly ==
    pc = "done" /\ prev = "done" =>
        /\ \A t \in Tables : Fresh(db[t])
        /\ db["state_crimes"] = state_df
        /\ db["agency_info"] = agency_data
        /\ db["agency_crimes"] = agency_crimes

C5_Witness ==
    /\ pc = "done"
    /\ prev = "done"
    /\ \A t \in Tables : db[t] # <<>>

\* C6: after a run that ends without raising, the row counts are the
\* numbers of records the state endpoint and the directory endpoint
\* returned and the sum of the record counts of the agencies that
\* returned 200.
C6_RowCounts ==
    pc = "done" =>
        /\ Len(db["state_crimes"]) = returned.state
        /\ Len(db["agency_info"]) = returned.directory
        /\ Len(db["agency_crimes"]) =
              Sum([i \in DOMAIN futures |-> futures[i].returned],
                  {i \in DOMAIN futures : Ok200(i)})

C6_Witness ==
    /\ pc = "done"
    /\ returned.state = MaxRecs
    /\ returned.directory = 2
    /\ Len(db["agency_crimes"]) = 2 * MaxRecs

\* C7: with an empty directory no call is submitted, the fan-out raises
\* nothing, and unless the store fails the empty agency_crimes table
\* replaces the old one and the run goes on to the rendering.
EmptyDirectory == "agency_info" \in Range(stages) /\ agency_codes = <<>>
C7_EmptyDirectory ==
    /\ [](EmptyDirectory =>
             /\ futures = <<>>
             /\ exc \in {NoExc, "StoreError"}
             /\ "agency_crimes" \in Range(stages) => db["agency_crimes"] = <<>>)
    /\ [][EmptyDirectory /\ pc = "submit" => pc' = "flatten"]_vars
    /\ [][EmptyDirectory /\ pc = "flatten" /\ exc' = NoExc =>
             pc' = "render" /\ db'["agency_crimes"] = <<>>]_vars

C7_Witness ==
    /\ EmptyDirectory
    /\ pc = "render"
    /\ prev = "done"
    /\ db["agency_crimes"] = <<>>
    /\ db["state_crimes"] # <<>>

\* C8: a failure inside plot_scatter is logged there, does not reach
\* main's handler, leaves the three tables as written, and the run ends as
\* a success.
C8_RenderFailureContained ==
    "plot_error" \in Range(log) =>
        /\ exc = NoExc
        /\ "main_error" \notin Range(log)
        /\ pc \in {"exit", "finally", "done"}
        /\ db["state_crimes"] = state_df
        /\ db["agency_info"] = agency_data
        /\ db["agency_crimes"] = agency_crimes

C8_Witness ==
    /\ pc = "done"
    /\ "plot_error" \in Range(log)
    /\ state_df # <<>>
    /\ "Rape" \notin Columns(state_df)
    /\ db["agency_crimes"] # <<>>

\* C9: the stages complete in the order state_crimes, agency_info,
\* agency_crimes, render; once an exception is raised no later stage runs
\* (no later table is written, no chart), main's handler logs it and main
\* ends by re-raising it.
C9_OrderedAndAborting ==
    /\ IsPrefix(stages, StageOrder)
    /\ \A t \in Tables : t \notin Range(stages) => ~\E r \in Range(db[t]) : r.gen = "cur"
    /\ chart => stages = StageOrder
    /\ exc # NoExc =>
          /\ pc \in {"exit", "except", "finally", "raised"}
          /\ "render" \notin Range(stages)
          /\ pc \in {"finally", "raised"} => "main_error" \in Range(log)
    /\ pc = "done" => exc = NoExc /\ stages = StageOrder

C9_Witness ==
    /\ pc = "raised"
    /\ exc = "RequestError"
    /\ stages = <<"state_crimes">>
    /\ "main_error" \in Range(log)
    /\ db["state_crimes"] # <<>>

\* C10: main takes no result and does not write agency_crimes before every
\* submitted call has completed.
C10_AllDoneBeforeFlatten ==
    (\/ pc = "flatten"
     \/ consumed # {}
     \/ agency_crimes # <<>>
     \/ "agency_crimes" \in Range(stages))
    => /\ Len(futures) = Len(agency_codes)
       /\ \A i \in DOMAIN futures : Finished(i)

C10_Witness ==
    /\ pc = "flatten"
    /\ Len(futures) = 2
    /\ consumed = {2}
    /\ agency_crimes # <<>>

====
